---- MODULE Spec2Model ----
(***************************************************************************)
(* Session-lifecycle state machine of JupyterCon                           *)
(* (packages/nbinteract-core/src/JupyterCon.js).                           *)
(*                                                                         *)
(* Every call of an async method is a task.  A task runs from one await to *)
(* the next in one atomic step (single-threaded, cooperative scheduling):  *)
(* the call action executes the synchronous prefix of the method up to its *)
(* first await, and each Resolve action settles the awaited promise and    *)
(* runs the continuation up to the next await or to the end of the call.   *)
(* Requests to the notebook server, to BinderHub and the browser timers    *)
(* are the environment: a request may always fail (network), and succeeds  *)
(* only when the server can serve it.                                      *)
(*                                                                         *)
(* Specifications: Spec, the session life cycle without a clock;           *)
(* SpecPage, the calls of the page without the heartbeat; SpecBeat, the    *)
(* heartbeat alone, and SpecFair, the heartbeat with timers firing and     *)
(* requests answered; SpecTimed, the debounced run() under a clock;        *)
(* SpecKill, the heartbeat with killKernel and getOrStartKernel on a page  *)
(* served by its notebook server; SpecWs, util.baseToWsUrl (util.js) on a  *)
(* set of base urls.                                                       *)
(***************************************************************************)
EXTENDS Integers, Sequences, FiniteSets, TLC

\* ---------------------------------------------------------------- bounds
MaxCalls == 1      \* calls the page makes in the session life cycle
MaxRuns == 2       \* calls the page makes when only run() is observed
MaxKernels == 2    \* kernels the notebook servers are willing to start
MaxKillCalls == 3  \* calls the page makes around a killKernel call
MaxOrphans == 1    \* startServer() calls in flight whose tick is over

\* ----------------------------------------------------- program constants
DebounceWait == 500      \* debounce(this.run, 500, ...)
DefaultSeconds == 5      \* seconds_between_check = 5

\* ------------------------------------------------------------ value sets
NoUrl == "none"                    \* nbUrl = false / no serverSettings argument
PendingPromise == "promise"        \* the un-awaited promise of startServer()
PageOrigin == "origin"             \* where a request without a baseUrl goes
Urls == {"https://a", "https://b"} \* notebook servers BinderHub can return
Tokens == {"t1"}
Seconds == {DefaultSeconds, 2}     \* arguments of the first _kernelHeartbeat call
TimeStep == DebounceWait \div 2      \* granularity of the clock, in ms

Max(a, b) == IF a > b THEN a ELSE b
MaxSlots == Max(MaxCalls, Max(MaxRuns, MaxKillCalls))
CallIds == 1..MaxSlots
BeatIds == (MaxSlots + 1)..(2 * MaxSlots)   \* the slots of the heartbeat ticks
TaskIds == CallIds \cup BeatIds
KernelIds == 1..MaxKernels

VARIABLES
  nbUrl,      \* config.nbUrl handed to BinderHub (NoUrl when false)
  storage,    \* localStorage: [serverParams, kernelId]
  kernel,     \* this.kernel (0 is null)
  manager,    \* this.manager: [attached, kernel]
  tasks,      \* the async calls, running or settled
  calls,      \* number of calls made by the page so far
  kernels,    \* server side: kernel id -> [url, status]
  hbTimers,   \* pending setTimeout(this._kernelHeartbeat, ms): sequence of ms
  hbStarts,   \* calls of _kernelHeartbeat made by the page
  db,         \* state of the debounced run: [since, timer, args, execs]
  runs,       \* the calls of the debounced run so far: [by, gap, executed]
  budget,     \* number of calls the page is going to make
  ws,         \* a call of util.baseToWsUrl: [pc, baseUrl, parts, wsUrl]
  mine,       \* ids of the kernels Kernel.startNew returned to this manager
  saved,      \* what this manager wrote to localStorage last: [url, token, kernelId]
  orphans     \* un-awaited startServer() calls in flight, their tick replaced

vars == <<nbUrl, storage, kernel, manager, tasks, calls, kernels, hbTimers,
          hbStarts, db, runs, budget, ws, mine, saved, orphans>>

\* What most steps leave alone: the budget of the page, the conversion of
\* a url, and the record of what this manager was asked, started and saved.
rest == <<budget, ws, mine, saved, orphans>>

\* ------------------------------------------------ localStorage and JSON
\* Texts are sequences of tokens.  An absent slot reads as undefined.
Undefined == <<"undefined">>
Garbage == <<"{", "url">>          \* text that is not valid JSON

JSONstringify(url, token) == <<"{", "url", url, "token", token, "}">>

JSONparses(text) ==
  /\ Len(text) = 6
  /\ text[1] = "{" /\ text[2] = "url" /\ text[4] = "token" /\ text[6] = "}"

JSONparse(text) == [url |-> text[3], token |-> text[5]]

\* ServerConnection.makeSettings({baseUrl, wsUrl, token})
makeSettings(url, token) == [url |-> url, token |-> token]
NoSettings == [url |-> NoUrl, token |-> NoUrl]
PromiseSettings == [url |-> PendingPromise, token |-> NoUrl]

\* ----------------------------------------------------------------- tasks
NoTask ==
  [op |-> "none", pc |-> "none",
   seconds |-> 0,            \* seconds_between_check of a heartbeat tick
   interval |-> 0,           \* seconds between this tick and the tick before
   settings |-> NoSettings,  \* serverSettings in use
   kid |-> 0,                \* kernelId read from localStorage
   srv |-> "none",           \* the task's own startServer() promise
   res |-> 0,                \* kernel returned / shut down
   cacheRead |-> FALSE,      \* localStorage was read by this call
   fresh |-> FALSE,          \* called with this.kernel null and empty storage
   checkFailed |-> FALSE,    \* getKernelModel failed in this call
   binderCalls |-> 0,        \* binder.startServer() calls made by this call
   getSpecsCalls |-> 0,      \* Kernel.getSpecs calls made by this call
   startNewCalls |-> 0,      \* Kernel.startNew calls made by this call
   sessions |-> 0,           \* kernels started for this call
   idWrites |-> 0,           \* writes of localStorage.kernelId by this call
   timersSet |-> 0,          \* setTimeout calls made by this call
   earlyRequest |-> FALSE,   \* a request was issued while startServer ran
   calledRun |-> FALSE,      \* this.run() was called by this call
   killed |-> {},            \* kernels shut down before this call was made
   err |-> "none"]           \* where the error the call threw was raised

Settled(t) == tasks[t].pc \in {"returned", "threw"}
Running(t) == tasks[t].pc \notin {"none", "returned", "threw"}

EmptyStorage == [serverParams |-> Undefined, kernelId |-> 0]

NoKernels == [k \in KernelIds |-> [url |-> NoUrl, status |-> "none"]]

\* ------------------------------------------------------ util.baseToWsUrl
\* Urls are sequences of characters here.
http == <<"h", "t", "t", "p">>
https == http \o <<"s">>
localhost == <<"l", "o", "c", "a", "l", "h", "o", "s", "t">>

\* String.prototype.includes
includes(s, sub) ==
  \E i \in 1..(Len(s) - Len(sub) + 1) : SubSeq(s, i, i + Len(sub) - 1) = sub

\* String.prototype.split(sep), sep one character
RECURSIVE split(_, _)
split(s, sep) ==
  IF \E i \in 1..Len(s) : s[i] = sep
  THEN LET i == CHOOSE k \in 1..Len(s) :
                  s[k] = sep /\ \A j \in 1..(k - 1) : s[j] # sep
       IN <<SubSeq(s, 1, i - 1)>> \o split(SubSeq(s, i + 1, Len(s)), sep)
  ELSE <<s>>

\* Array.prototype.slice(1)
slice(parts) == SubSeq(parts, 2, Len(parts))

\* Array.prototype.join(sep)
RECURSIVE join(_, _)
join(parts, sep) ==
  IF parts = <<>> THEN <<>>
  ELSE IF Len(parts) = 1 THEN parts[1]
  ELSE parts[1] \o <<sep>> \o join(Tail(parts), sep)

\* Variant: the scheme follows the scheme of the input.
wsSchemeOfInput(baseUrl) ==
  IF SubSeq(baseUrl, 1, Len(https)) = https THEN <<"w", "s", "s", ":">>
  ELSE <<"w", "s", ":">>

\* baseUrl.includes('localhost') ? 'ws:' : 'wss:'
wsScheme(baseUrl) ==
  IF includes(baseUrl, localhost) THEN <<"w", "s", ":">>
  ELSE <<"w", "s", "s", ":">>

baseToWsUrl(baseUrl) == wsScheme(baseUrl) \o join(slice(split(baseUrl, ":")), ":")

\* The base urls the conversion is tried on: scheme://host[:port][path]
Hosts ==
  {<<"a", ".", "b">>, localhost, <<"m", "y">> \o localhost,
   <<"l", "o", "c", "a", "l">>, <<"L">> \o Tail(localhost)}
Ports == {<<>>, <<":", "8">>}
Paths == {<<>>, <<"/">>, <<"/">> \o localhost}
BaseUrls ==
  {s \o <<":", "/", "/">> \o h \o p \o q :
     s \in {http, https}, h \in Hosts, p \in Ports, q \in Paths}

NoConversion == [pc |-> "none", baseUrl |-> <<>>, wsUrl |-> <<>>]

\* The state after construction.  localStorage outlives the page: it is
\* empty, or holds text that is not JSON, or holds what an earlier page
\* saved, the kernel of which may be alive or dead by now.
NothingSaved == [url |-> NoUrl, token |-> NoUrl, kernelId |-> 0]

Untouched ==
  /\ kernel = 0
  /\ manager = [attached |-> FALSE, kernel |-> 0]
  /\ tasks = [t \in TaskIds |-> NoTask]
  /\ calls = 0
  /\ hbTimers = <<>>
  /\ hbStarts = 0
  /\ db = [since |-> -1, timer |-> -1, args |-> FALSE, execs |-> 0]
  /\ runs = <<>>
  /\ mine = {}
  /\ saved = NothingSaved
  /\ orphans = 0

Cache ==
  \/ storage = EmptyStorage /\ kernels = NoKernels
  \/ storage = [serverParams |-> Garbage, kernelId |-> 0] /\ kernels = NoKernels
  \/ /\ storage = [serverParams |-> JSONstringify("https://a", "t1"),
                   kernelId |-> 1]
     /\ \E st \in {"alive", "dead"} :
          kernels = [NoKernels EXCEPT ![1] = [url |-> "https://a", status |-> st]]

Constructed ==
  /\ nbUrl \in {NoUrl} \cup {"https://a"}
  /\ Cache
  /\ Untouched
  /\ ws = NoConversion

Init == Constructed /\ budget = MaxCalls

\* The page does nothing but call run() and runIfKernelExists().
InitTimed == Constructed /\ budget = MaxRuns

\* The page is served by the notebook server that config.nbUrl names and
\* nothing is cached; it starts the heartbeat, kills the kernel and asks for
\* a kernel.
InitKill ==
  /\ nbUrl = PageOrigin
  /\ storage = EmptyStorage /\ kernels = NoKernels
  /\ Untouched
  /\ ws = NoConversion
  /\ budget = MaxKillCalls

\* util.baseToWsUrl is called with a base url.
InitWs ==
  /\ nbUrl = NoUrl /\ storage = EmptyStorage /\ kernels = NoKernels
  /\ Untouched
  /\ budget = 0
  /\ \E u \in BaseUrls : ws = [pc |-> "called", baseUrl |-> u, wsUrl |-> <<>>]

\* The call returns.
ReturnBaseToWsUrl ==
  /\ ws.pc = "called"
  /\ ws' = [ws EXCEPT !.pc = "returned", !.wsUrl = baseToWsUrl(ws.baseUrl)]
  /\ UNCHANGED <<nbUrl, storage, kernel, manager, tasks, calls, kernels,
                 hbTimers, hbStarts, db, runs, budget, mine, saved,
                 orphans>>

SpecWs == InitWs /\ [][ReturnBaseToWsUrl]_vars

\* ------------------------------------------- debounce(this.run, 500, ...)
\* db.since: ms since lastCallTime (-1: undefined), counted up to the first
\*           step past the window;
\* db.timer: ms until timerExpired is due (0: due or overdue, -1: timerId
\*           undefined);
\* db.args:  lastArgs is set (a call has not been invoked yet);
\* db.execs: invocations of the body of run().
shouldInvoke(d) == d.since = -1 \/ d.since >= DebounceWait

\* leading: true: the call invokes run() when the window is over and no timer
\* is pending.
invokesRun(d) == shouldInvoke(d) /\ d.timer = -1

\* A call of the debounced function.  Inside the window it only restarts the
\* window and leaves its arguments in lastArgs.
debounced(d) ==
  IF invokesRun(d)
  THEN [since |-> 0, timer |-> DebounceWait, args |-> FALSE, execs |-> d.execs + 1]
  ELSE [since |-> 0,
        timer |-> IF d.timer = -1 THEN DebounceWait ELSE d.timer,
        args |-> TRUE,
        execs |-> d.execs]

\* trailingEdge with trailing: false: the timer is cleared, lastArgs is
\* dropped and nothing is invoked.
trailingEdge(d) == [d EXCEPT !.timer = -1, !.args = FALSE]

\* timerExpired of the debounce: at the end of the window trailingEdge,
\* otherwise the timer is re-armed for the remaining wait.
timerExpired ==
  /\ db.timer = 0
  /\ db' = IF shouldInvoke(db) THEN trailingEdge(db)
           ELSE [db EXCEPT !.timer = DebounceWait - db.since]
  /\ UNCHANGED <<nbUrl, storage, kernel, manager, tasks, calls, kernels,
                 hbTimers, hbStarts, runs, rest>>

\* Time passes.  A timer that is due (db.timer = 0) runs when the thread is
\* free: while the page keeps the thread busy the clock moves on and the
\* timer stays due.
Tick ==
  /\ db.since >= 0 /\ db.since <= DebounceWait
  /\ db' = [db EXCEPT !.since = @ + TimeStep,
                      !.timer = IF @ > 0 THEN @ - TimeStep ELSE @]
  /\ UNCHANGED <<nbUrl, storage, kernel, manager, tasks, calls, kernels,
                 hbTimers, hbStarts, runs, rest>>

\* A call of this.run, the debounced run().  The body of run() is
\*   throw "This version of JupyterCon has been modified."
\* in an async function: an executed call returns a rejected promise and
\* touches neither localStorage nor this.kernel nor any server.
run(by, d) ==
  [by |-> by, gap |-> d.since, executed |-> invokesRun(d),
   fresh |-> (storage = EmptyStorage /\ kernel = 0)]

\* ------------------------------------------------------ method prefixes
\* Variant: text that does not parse is taken for empty settings and the
\* request is sent.
getKernelModelLenient(rec) ==
  IF JSONparses(storage.serverParams)
  THEN [rec EXCEPT !.pc = "findById",
                   !.settings = makeSettings(JSONparse(storage.serverParams).url,
                                             JSONparse(storage.serverParams).token),
                   !.kid = storage.kernelId,
                   !.cacheRead = TRUE]
  ELSE [rec EXCEPT !.pc = "findById", !.kid = storage.kernelId, !.cacheRead = TRUE]

\* getKernelModel up to its await: read both slots of localStorage, parse
\* serverParams (JSON.parse throws on undefined and on text that is not
\* JSON), make the settings and send Kernel.findById(kernelId, settings).
getKernelModel(rec) ==
  IF JSONparses(storage.serverParams)
  THEN [rec EXCEPT !.pc = "findById",
                   !.settings = makeSettings(JSONparse(storage.serverParams).url,
                                             JSONparse(storage.serverParams).token),
                   !.kid = storage.kernelId,
                   !.cacheRead = TRUE]
  ELSE [rec EXCEPT !.pc = "gkmThrew", !.cacheRead = TRUE]

\* startServer up to its await: call binder.startServer().
startServer(rec) ==
  [rec EXCEPT !.srv = "pending", !.binderCalls = @ + 1]

\* startKernel(serverSettings) up to its first await.  Without an argument
\* serverSettings becomes the promise of this.startServer(), which is not
\* awaited: Kernel.getSpecs is sent right away with that promise as settings.
startKernel(rec, arg) ==
  IF arg = NoSettings
  THEN [startServer(rec) EXCEPT !.pc = "getSpecs",
                                !.settings = PromiseSettings,
                                !.getSpecsCalls = @ + 1,
                                !.earlyRequest = TRUE]
  ELSE [rec EXCEPT !.pc = "getSpecs", !.settings = arg,
                   !.getSpecsCalls = @ + 1]

\* The server a request with these settings is sent to.  A promise has no
\* baseUrl: the request cannot go to the server being provisioned.
Target(settings) ==
  IF settings.url = PendingPromise THEN PageOrigin ELSE settings.url

\* setTimeout(this._kernelHeartbeat, seconds_between_check * 1000)
setTimeout(timers, rec) == Append(timers, rec.seconds * 1000)

\* An error leaving a call
threw(rec, where) == [rec EXCEPT !.pc = "threw", !.err = where]

NewTask(o) == [NoTask EXCEPT !.op = o]

\* _kernelHeartbeat: the finally block.  What is left of a tick when it is
\* over is its outcome, the timer it set and its startServer() call if that
\* is still in flight; its locals are gone.
heartbeatFinally(rec, outcome) ==
  [NewTask("heartbeat") EXCEPT
     !.pc = outcome,
     !.err = rec.err,
     !.checkFailed = rec.checkFailed,
     !.srv = IF rec.srv = "pending" THEN "pending" ELSE "none",
     !.timersSet = rec.timersSet + 1]

\* The state of a startServer() promise that settled: nobody holds the
\* promise of a tick that is over.
settled(rec, state) ==
  IF rec.op = "heartbeat" /\ rec.pc \in {"returned", "threw"} THEN "none" ELSE state

\* -------------------------------------------------- calls made by the page
PageRuns == Cardinality({i \in 1..Len(runs) : runs[i].by = "page"})
CallsMade == calls + PageRuns
CanCall == CallsMade < budget
NextCall == calls + 1

\* A tick runs in the first slot no tick is running in.  The startServer()
\* call of the tick that had the slot before may still be in flight.
FreeBeats == {b \in BeatIds : tasks[b].pc \in {"none", "returned", "threw"}}
FreeBeat == CHOOSE b \in FreeBeats : \A c \in FreeBeats : b <= c
Orphaned == IF tasks[FreeBeat].srv = "pending" THEN 1 ELSE 0

\* A call of _kernelHeartbeat(seconds_between_check) up to its await, in
\* the chain of ticks that began with the interval given.
kernelHeartbeat(s, interval) ==
  /\ FreeBeats # {}
  /\ orphans + Orphaned <= MaxOrphans
  /\ orphans' = orphans + Orphaned
  /\ tasks' = [tasks EXCEPT
                 ![FreeBeat] = getKernelModel([NewTask("heartbeat")
                                                 EXCEPT !.seconds = s,
                                                        !.interval = interval])]

CallRun ==
  /\ CallsMade < budget
  /\ runs' = Append(runs, run("page", db))
  /\ db' = debounced(db)
  /\ UNCHANGED <<nbUrl, storage, kernel, manager, tasks, calls, kernels,
                 hbTimers, hbStarts, rest>>

CallRunIfKernelExists ==
  /\ CanCall
  /\ tasks' = [tasks EXCEPT
                 ![NextCall] = getKernelModel(NewTask("runIfKernelExists"))]
  /\ calls' = calls + 1
  /\ UNCHANGED <<nbUrl, storage, kernel, manager, kernels, hbTimers, hbStarts, db,
                 runs, rest>>

\* getOrStartKernel: if (this.kernel) return this.kernel; else getKernel()
ShutDown == {k \in KernelIds : kernels[k].status = "shutdown"}

getOrStartKernel(rec) ==
  IF kernel # 0
  THEN [rec EXCEPT !.pc = "returned", !.res = kernel, !.killed = ShutDown]
  ELSE getKernelModel([rec EXCEPT !.fresh = (storage = EmptyStorage),
                                  !.killed = ShutDown])

CallGetOrStartKernel ==
  /\ CanCall
  /\ tasks' = [tasks EXCEPT
                 ![NextCall] = getOrStartKernel(NewTask("getOrStartKernel"))]
  /\ calls' = calls + 1
  /\ UNCHANGED <<nbUrl, storage, kernel, manager, kernels, hbTimers, hbStarts, db,
                 runs, rest>>

CallKillKernel ==
  /\ CanCall
  /\ tasks' = [tasks EXCEPT ![NextCall] = getKernelModel(NewTask("killKernel"))]
  /\ calls' = calls + 1
  /\ UNCHANGED <<nbUrl, storage, kernel, manager, kernels, hbTimers, hbStarts, db,
                 runs, rest>>

\* getKernel, getKernelModel and killKernel all begin with getKernelModel
CallCached ==
  /\ CanCall
  /\ \E o \in {"getKernel", "getKernelModel", "killKernel"} :
       tasks' = [tasks EXCEPT ![NextCall] = getKernelModel(NewTask(o))]
  /\ calls' = calls + 1
  /\ UNCHANGED <<nbUrl, storage, kernel, manager, kernels, hbTimers, hbStarts, db,
                 runs, rest>>

CallStartServer ==
  /\ CanCall
  /\ tasks' = [tasks EXCEPT
                 ![NextCall] = [startServer(NewTask("startServer"))
                                  EXCEPT !.pc = "startServer"]]
  /\ calls' = calls + 1
  /\ UNCHANGED <<nbUrl, storage, kernel, manager, kernels, hbTimers, hbStarts, db,
                 runs, rest>>

CallStartKernel ==
  /\ CanCall
  /\ \E arg \in {NoSettings} \cup {makeSettings(u, k) : u \in Urls, k \in Tokens} :
       tasks' = [tasks EXCEPT ![NextCall] = startKernel(NewTask("startKernel"), arg)]
  /\ calls' = calls + 1
  /\ UNCHANGED <<nbUrl, storage, kernel, manager, kernels, hbTimers, hbStarts, db,
                 runs, rest>>

\* _kernelHeartbeat(seconds_between_check) called by the page: each call
\* starts a chain of ticks.
CallKernelHeartbeat ==
  /\ CanCall
  /\ \E s \in Seconds : kernelHeartbeat(s, s)
  /\ calls' = calls + 1
  /\ hbStarts' = hbStarts + 1
  /\ UNCHANGED <<nbUrl, storage, kernel, manager, kernels, hbTimers, db, runs,
                 budget, ws, mine, saved>>

\* A heartbeat timer fires: the callback is called without arguments, so
\* seconds_between_check takes its default.
HeartbeatTimer ==
  /\ \E i \in 1..Len(hbTimers) :
       /\ hbTimers' = SubSeq(hbTimers, 1, i - 1)
                        \o SubSeq(hbTimers, i + 1, Len(hbTimers))
       /\ kernelHeartbeat(DefaultSeconds, hbTimers[i] \div 1000)
  /\ UNCHANGED <<nbUrl, storage, kernel, manager, calls, kernels, hbStarts, db,
                 runs, budget, ws, mine, saved>>

\* ------------------------------------------------- the notebook servers
KernelAlive(kid, url) ==
  /\ kid \in KernelIds
  /\ kernels[kid].status = "alive"
  /\ kernels[kid].url = url

FreeKernelIds == {k \in KernelIds : kernels[k].status = "none"}
NewKernelId == CHOOSE k \in FreeKernelIds : \A j \in FreeKernelIds : k <= j

KernelDies ==
  /\ \E k \in KernelIds :
       /\ kernels[k].status = "alive"
       /\ kernels' = [kernels EXCEPT ![k].status = "dead"]
  /\ UNCHANGED <<nbUrl, storage, kernel, manager, tasks, calls, hbTimers,
                 hbStarts, db, runs, rest>>

\* The page assigns a widget manager to the public property this.manager.
AttachManager ==
  /\ ~manager.attached
  /\ manager' = [manager EXCEPT !.attached = TRUE]
  /\ UNCHANGED <<nbUrl, storage, kernel, tasks, calls, kernels, hbTimers,
                 hbStarts, db, runs, rest>>

\* ------------------------------------------- continuations after an await
\* The callers of getKernel / getKernelModel that answer a failure with
\* startKernel(): the catch blocks of getOrStartKernel and _kernelHeartbeat.
\* Variants: only the heartbeat recovers; every caller recovers.
fallsBackHeartbeatOnly(rec) == rec.op = "heartbeat"
fallsBackAlways(rec) == rec.op \in {"getOrStartKernel", "heartbeat", "runIfKernelExists"}
fallsBack(rec) == rec.op \in {"getOrStartKernel", "heartbeat"}

\* What the caller of getKernelModel does when it threw.
checkFailed(t, rec) ==
  /\ tasks' = [tasks EXCEPT
                 ![t] = IF fallsBack(rec)
                        THEN \* catch: startKernel()
                             startKernel([rec EXCEPT !.checkFailed = TRUE], NoSettings)
                        ELSE IF rec.op = "runIfKernelExists"
                        THEN \* catch: log and return
                             [rec EXCEPT !.pc = "returned", !.checkFailed = TRUE]
                        ELSE \* getKernelModel, getKernel, killKernel
                             threw([rec EXCEPT !.checkFailed = TRUE], "cache")]
  /\ UNCHANGED <<db, hbTimers, runs>>

\* Variant: the heartbeat starts a kernel after a check that succeeded too.
checkOkRestarts(t, rec) ==
  CASE rec.op = "getKernelModel" ->
         /\ tasks' = [tasks EXCEPT ![t] = [rec EXCEPT !.pc = "returned",
                                                      !.res = rec.kid]]
         /\ UNCHANGED <<db, hbTimers, runs>>
    [] rec.op = "runIfKernelExists" ->
         /\ tasks' = [tasks EXCEPT ![t] = [rec EXCEPT !.pc = "returned",
                                                      !.calledRun = TRUE]]
         /\ runs' = Append(runs, run("runIfKernelExists", db))
         /\ db' = debounced(db)
         /\ UNCHANGED hbTimers
    [] rec.op = "heartbeat" ->
         /\ tasks' = [tasks EXCEPT ![t] = startKernel(rec, NoSettings)]
         /\ UNCHANGED <<db, hbTimers, runs>>
    [] rec.op \in {"getKernel", "killKernel", "getOrStartKernel"} ->
         /\ tasks' = [tasks EXCEPT ![t] = [rec EXCEPT !.pc = "connectTo"]]
         /\ UNCHANGED <<db, hbTimers, runs>>

\* What the caller of getKernelModel does when it returned.
checkOk(t, rec) ==
  CASE rec.op = "getKernelModel" ->
         /\ tasks' = [tasks EXCEPT ![t] = [rec EXCEPT !.pc = "returned",
                                                      !.res = rec.kid]]
         /\ UNCHANGED <<db, hbTimers, runs>>
    [] rec.op = "runIfKernelExists" ->
         \* this.run(): the debounced run, its promise is dropped
         /\ tasks' = [tasks EXCEPT ![t] = [rec EXCEPT !.pc = "returned",
                                                      !.calledRun = TRUE]]
         /\ runs' = Append(runs, run("runIfKernelExists", db))
         /\ db' = debounced(db)
         /\ UNCHANGED hbTimers
    [] rec.op = "heartbeat" ->
         /\ tasks' = [tasks EXCEPT ![t] = heartbeatFinally(rec, "returned")]
         /\ hbTimers' = setTimeout(hbTimers, rec)
         /\ UNCHANGED <<db, runs>>
    [] rec.op \in {"getKernel", "killKernel", "getOrStartKernel"} ->
         \* getKernel: Kernel.connectTo(kernelModel, serverSettings)
         /\ tasks' = [tasks EXCEPT ![t] = [rec EXCEPT !.pc = "connectTo"]]
         /\ UNCHANGED <<db, hbTimers, runs>>

\* getKernelModel threw before its await (JSON.parse)
ResolveThrown ==
  \E t \in TaskIds :
    /\ tasks[t].pc = "gkmThrew"
    /\ checkFailed(t, tasks[t])
    /\ UNCHANGED <<nbUrl, storage, kernel, manager, calls, kernels, hbStarts,
                   rest>>

\* Kernel.findById settles: it finds the kernel only if the server at
\* settings.url has it alive.
ResolveFindById ==
  \E t \in TaskIds :
    /\ tasks[t].pc = "findById"
    /\ \/ KernelAlive(tasks[t].kid, tasks[t].settings.url) /\ checkOk(t, tasks[t])
       \/ checkFailed(t, tasks[t])
    /\ UNCHANGED <<nbUrl, storage, kernel, manager, calls, kernels, hbStarts,
                   rest>>

\* Variant: getKernel itself shuts the kernel down.
connectedShutsDown(rec) == [rec EXCEPT !.pc = "shutdown"]

\* getKernel returned the connected kernel: killKernel goes on with
\* kernel.shutdown(), getKernel and getOrStartKernel return it.
connected(rec) ==
  IF rec.op = "killKernel"
  THEN [rec EXCEPT !.pc = "shutdown"]
  ELSE [rec EXCEPT !.pc = "returned", !.res = rec.kid]

\* Kernel.connectTo threw: getOrStartKernel catches and calls startKernel(),
\* getKernel and killKernel throw.
connectFailed(rec) ==
  IF fallsBack(rec)
  THEN startKernel([rec EXCEPT !.checkFailed = TRUE], NoSettings)
  ELSE [rec EXCEPT !.pc = "threw", !.err = "connect"]

\* Kernel.connectTo settles.
ResolveConnectTo ==
  \E t \in TaskIds :
    /\ tasks[t].pc = "connectTo"
    /\ \/ tasks' = [tasks EXCEPT ![t] = connected(tasks[t])]
       \/ tasks' = [tasks EXCEPT ![t] = connectFailed(tasks[t])]
    /\ UNCHANGED <<nbUrl, storage, kernel, manager, calls, kernels, hbTimers,
                   hbStarts, db, runs, rest>>

\* kernel.shutdown() settles.
ResolveShutdown ==
  \E t \in TaskIds :
    /\ tasks[t].pc = "shutdown"
    /\ \/ /\ tasks[t].kid \in KernelIds
          /\ kernels' = [kernels EXCEPT ![tasks[t].kid].status = "shutdown"]
          /\ tasks' = [tasks EXCEPT ![t] = [@ EXCEPT !.pc = "returned",
                                                     !.res = tasks[t].kid]]
       \/ /\ tasks' = [tasks EXCEPT ![t] = [@ EXCEPT !.pc = "threw",
                                                     !.err = "shutdown"]]
          /\ UNCHANGED kernels
    /\ UNCHANGED <<nbUrl, storage, kernel, manager, calls, hbTimers, hbStarts, db,
                   runs, rest>>

\* Variant: the timer is set at the end of the try block, not in finally.
startFailedNoFinally(t, rec) ==
  /\ tasks' = [tasks EXCEPT ![t] = threw(rec, "start")]
  /\ UNCHANGED hbTimers

\* startKernel: catch (err) { ...; throw err }.  In _kernelHeartbeat the
\* error leaves the catch block through the finally block.
startFailed(t, rec) ==
  IF rec.op = "heartbeat"
  THEN /\ tasks' = [tasks EXCEPT
                      ![t] = heartbeatFinally(threw(rec, "start"), "threw")]
       /\ hbTimers' = setTimeout(hbTimers, rec)
  ELSE /\ tasks' = [tasks EXCEPT ![t] = threw(rec, "start")]
       /\ UNCHANGED hbTimers

\* Kernel.getSpecs settles; on success Kernel.startNew is sent.
ResolveGetSpecs ==
  \E t \in TaskIds :
    /\ tasks[t].pc = "getSpecs"
    /\ \/ /\ tasks' = [tasks EXCEPT
                         ![t] = [@ EXCEPT !.pc = "startNew",
                                          !.startNewCalls = @ + 1,
                                          !.earlyRequest = @ \/ tasks[t].srv = "pending"]]
          /\ UNCHANGED hbTimers
       \/ startFailed(t, tasks[t])
    /\ UNCHANGED <<nbUrl, storage, kernel, manager, calls, kernels, hbStarts, db,
                   runs, rest>>

\* startKernel after Kernel.startNew returned the kernel:
\* localStorage.kernelId = kernel.id; return kernel
startKernelDone(rec, id) ==
  [rec EXCEPT !.res = id, !.sessions = @ + 1, !.idWrites = @ + 1]

\* _kernelHeartbeat after await this.startKernel() resumed: this.kernel =
\* kernel, then this.manager.setKernel(kernel), a TypeError while
\* this.manager is null.
heartbeatRebind(rec) ==
  IF manager.attached
  THEN heartbeatFinally(rec, "returned")
  ELSE heartbeatFinally(threw(rec, "manager"), "threw")

\* The callers that await this.startKernel(): they resume one job after
\* startKernel returned.  A startKernel call of the page is that call.
awaitsStartKernel(rec) == rec.op \in {"getOrStartKernel", "heartbeat"}

\* Kernel.startNew settles; on success startKernel writes kernelId and
\* returns.
ResolveStartNew ==
  \E t \in TaskIds :
    /\ tasks[t].pc = "startNew"
    /\ \/ /\ FreeKernelIds # {}
          /\ kernels' = [kernels EXCEPT
                           ![NewKernelId] = [url |-> Target(tasks[t].settings),
                                             status |-> "alive"]]
          /\ storage' = [storage EXCEPT !.kernelId = NewKernelId]
          /\ mine' = mine \cup {NewKernelId}
          /\ saved' = [saved EXCEPT !.kernelId = NewKernelId]
          /\ tasks' = [tasks EXCEPT
                         ![t] = [startKernelDone(@, NewKernelId)
                                   EXCEPT !.pc = IF awaitsStartKernel(tasks[t])
                                                 THEN "startKernelReturned"
                                                 ELSE "returned"]]
          /\ UNCHANGED hbTimers
       \/ /\ startFailed(t, tasks[t])
          /\ UNCHANGED <<storage, kernels, mine, saved>>
    /\ UNCHANGED <<nbUrl, kernel, manager, calls, hbStarts, db, runs, budget, ws,
                   orphans>>

\* await this.startKernel() in _kernelHeartbeat resumes, one job after
\* startKernel returned.
ResumeHeartbeat ==
  \E t \in BeatIds :
    /\ tasks[t].pc = "startKernelReturned"
    /\ kernel' = tasks[t].res
    /\ manager' = IF manager.attached
                  THEN [manager EXCEPT !.kernel = tasks[t].res]
                  ELSE manager
    /\ tasks' = [tasks EXCEPT ![t] = heartbeatRebind(@)]
    /\ hbTimers' = setTimeout(hbTimers, tasks[t])
    /\ UNCHANGED <<nbUrl, storage, calls, kernels, hbStarts, db, runs, rest>>

\* await this.startKernel() in getOrStartKernel resumes, one job after
\* startKernel returned: return kernel
ResumeGetOrStartKernel ==
  \E t \in CallIds :
    /\ tasks[t].op = "getOrStartKernel"
    /\ tasks[t].pc = "startKernelReturned"
    /\ tasks' = [tasks EXCEPT ![t] = [@ EXCEPT !.pc = "returned"]]
    /\ UNCHANGED <<nbUrl, storage, kernel, manager, calls, kernels, hbTimers,
                   hbStarts, db, runs, rest>>

\* binder.startServer(): with nbUrl set it answers with that url and makes no
\* request; otherwise the BinderHub service launches a server or fails.
binderStartServer ==
  IF nbUrl # NoUrl
  THEN {[ok |-> TRUE, url |-> nbUrl, token |-> k] : k \in Tokens}
  ELSE {[ok |-> TRUE, url |-> u, token |-> k] : u \in Urls, k \in Tokens}
       \cup {[ok |-> FALSE, url |-> NoUrl, token |-> NoUrl]}

\* Variant: the new text is appended to what the slot holds.
startServerDoneAppends(store, r) ==
  [store EXCEPT !.serverParams = @ \o JSONstringify(r.url, r.token)]

\* startServer after binder.startServer() answered:
\* localStorage.serverParams = JSON.stringify({ url, token })
startServerDone(store, r) ==
  [store EXCEPT !.serverParams = JSONstringify(r.url, r.token)]

\* The promise of a startServer() call settles, awaited by anybody or not.
ResolveStartServer ==
  /\ \/ \E t \in TaskIds :
          /\ tasks[t].srv = "pending"
          /\ UNCHANGED orphans
          /\ \E r \in binderStartServer :
               IF r.ok
               THEN /\ storage' = startServerDone(storage, r)
                    /\ saved' = [saved EXCEPT !.url = r.url, !.token = r.token]
                    /\ tasks' = [tasks EXCEPT
                                   ![t] = IF @.op = "startServer"
                                          THEN [@ EXCEPT !.srv = "done", !.pc = "returned",
                                                         !.settings = makeSettings(r.url, r.token)]
                                          ELSE [@ EXCEPT !.srv = settled(tasks[t], "done")]]
               ELSE /\ UNCHANGED <<storage, saved>>
                    /\ tasks' = [tasks EXCEPT
                                   ![t] = IF @.op = "startServer"
                                          THEN [@ EXCEPT !.srv = "failed", !.pc = "threw",
                                                         !.err = "binder"]
                                          ELSE [@ EXCEPT !.srv = settled(tasks[t], "failed")]]
     \/ /\ orphans > 0
        /\ orphans' = orphans - 1
        /\ UNCHANGED tasks
        /\ \E r \in binderStartServer :
             IF r.ok
             THEN /\ storage' = startServerDone(storage, r)
                  /\ saved' = [saved EXCEPT !.url = r.url, !.token = r.token]
             ELSE UNCHANGED <<storage, saved>>
  /\ UNCHANGED <<nbUrl, kernel, manager, calls, kernels, hbTimers, hbStarts, db,
                 runs, budget, ws, mine>>

\* ------------------------------------------------------ the specification
\* The session life cycle.  No time passes in it: the window of the debounce
\* never ends, which changes nothing for the sessions, since the body of
\* run() touches no state.
SessionStep ==
  \/ CallRunIfKernelExists
  \/ CallGetOrStartKernel
  \/ CallCached
  \/ CallStartServer
  \/ CallStartKernel
  \/ CallKernelHeartbeat
  \/ HeartbeatTimer
  \/ ResolveThrown
  \/ ResolveFindById
  \/ ResolveConnectTo
  \/ ResolveShutdown
  \/ ResolveGetSpecs
  \/ ResolveStartNew
  \/ ResumeHeartbeat
  \/ ResumeGetOrStartKernel
  \/ ResolveStartServer
  \/ KernelDies
  \/ AttachManager

Next == CallRun \/ SessionStep

Spec == Init /\ [][Next]_vars

\* The debounced run() under the clock.
NextTimed ==
  \/ CallRun
  \/ CallRunIfKernelExists
  \/ ResolveThrown
  \/ ResolveFindById
  \/ KernelDies
  \/ timerExpired
  \/ Tick

SpecTimed == InitTimed /\ [][NextTimed]_vars

\* A step that lets the call in slot t go on.
Serves(t) == tasks'[t] # tasks[t]

\* Timers fire, and every request and every awaited promise of every call
\* settles in the end.
Fairness ==
  /\ WF_vars(HeartbeatTimer)
  /\ WF_vars(ResolveStartServer /\ orphans' # orphans)
  /\ \A t \in TaskIds :
       /\ WF_vars(ResolveThrown /\ Serves(t))
       /\ WF_vars(ResolveFindById /\ Serves(t))
       /\ WF_vars(ResolveConnectTo /\ Serves(t))
       /\ WF_vars(ResolveShutdown /\ Serves(t))
       /\ WF_vars(ResolveGetSpecs /\ Serves(t))
       /\ WF_vars(ResolveStartNew /\ Serves(t))
       /\ WF_vars(ResumeHeartbeat /\ Serves(t))
       /\ WF_vars(ResumeGetOrStartKernel /\ Serves(t))
       /\ WF_vars(ResolveStartServer /\ Serves(t))

\* The monitor: the page starts the heartbeat, kernels die and requests
\* fail.
NextBeat ==
  \/ CallKernelHeartbeat
  \/ HeartbeatTimer
  \/ ResolveThrown
  \/ ResolveFindById
  \/ ResolveGetSpecs
  \/ ResolveStartNew
  \/ ResumeHeartbeat
  \/ ResolveStartServer
  \/ KernelDies
  \/ AttachManager

SpecBeat == Init /\ [][NextBeat]_vars

SpecFair == SpecBeat /\ Fairness

\* The calls of the page without the monitor.
NextPage ==
  \/ CallRun
  \/ CallRunIfKernelExists
  \/ CallGetOrStartKernel
  \/ CallCached
  \/ CallStartServer
  \/ CallStartKernel
  \/ ResolveThrown
  \/ ResolveFindById
  \/ ResolveConnectTo
  \/ ResolveShutdown
  \/ ResolveGetSpecs
  \/ ResolveStartNew
  \/ ResumeGetOrStartKernel
  \/ ResolveStartServer
  \/ KernelDies

SpecPage == Init /\ [][NextPage]_vars

\* The heartbeat, killKernel and getOrStartKernel together.
NextKill ==
  \/ CallKernelHeartbeat
  \/ CallKillKernel
  \/ CallGetOrStartKernel
  \/ HeartbeatTimer
  \/ ResolveThrown
  \/ ResolveFindById
  \/ ResolveConnectTo
  \/ ResolveShutdown
  \/ ResolveGetSpecs
  \/ ResolveStartNew
  \/ ResumeHeartbeat
  \/ ResumeGetOrStartKernel
  \/ ResolveStartServer

SpecKill == InitKill /\ [][NextKill]_vars

\* ================================================================ claims
Ticks == {b \in BeatIds : tasks[b].op = "heartbeat"}
RunningTicks == {b \in BeatIds : Running(b)}
Started == {k \in KernelIds : kernels[k].status # "none"}

\* C1: when startKernel is called without serverSettings, startServer has
\* run to completion, its write of serverParams included, before
\* Kernel.getSpecs or Kernel.startNew is sent: no request is sent while the
\* task's startServer() is still in flight.
C1_ServerStartedBeforeRequests ==
  \A t \in TaskIds :
    /\ ~tasks[t].earlyRequest
    /\ tasks[t].pc \in {"getSpecs", "startNew"} => tasks[t].srv # "pending"

\* C2: a call of run() inside the 500 ms window of the previous call is
\* dropped and never executed later, a call made after the window (or the
\* first call) is executed: two calls inside the window give one execution
\* of the body, two calls further apart give two.
C2_Debounce ==
  /\ \A i \in 1..Len(runs) :
       /\ runs[i].gap \in 0..(DebounceWait - 1) => ~runs[i].executed
       /\ runs[i].gap = -1 \/ runs[i].gap > DebounceWait => runs[i].executed
  /\ db.execs = Cardinality({i \in 1..Len(runs) : runs[i].executed})
  /\ Len(runs) = 2 /\ runs[2].gap \in 0..(DebounceWait - 1) => db.execs = 1
  /\ Len(runs) = 2 /\ runs[2].gap > DebounceWait => db.execs = 2

\* C3: an executed run() on a manager with an empty cache starts exactly one
\* session and leaves the server url and the session id in the cache.
C3_RunEnsuresSession ==
  \A i \in 1..Len(runs) :
    runs[i].executed /\ runs[i].fresh =>
      /\ Cardinality(Started) = 1
      /\ storage.kernelId \in Started
      /\ JSONparses(storage.serverParams)

\* C4: getOrStartKernel on a fresh manager with empty storage reads the cache
\* first, calls binder.startServer() once and Kernel.startNew once, and when
\* it returns storage holds the new serverParams and the new kernelId.
C4_FreshGetOrStart ==
  \A t \in CallIds :
    tasks[t].op = "getOrStartKernel" /\ tasks[t].fresh /\ tasks[t].pc = "returned" =>
      /\ tasks[t].cacheRead
      /\ tasks[t].binderCalls = 1
      /\ tasks[t].startNewCalls = 1
      /\ storage.kernelId = tasks[t].res
      /\ JSONparses(storage.serverParams)

\* C5: in getOrStartKernel a failure of the reattach through the cache
\* (nothing cached, unparsable serverParams, kernel unknown to the server,
\* connection refused) never ends the call: startKernel is called, and the
\* call either returns the new kernel, whose id startKernel wrote over
\* localStorage.kernelId before it returned, or throws the error of the
\* start path.
C5_Overwrites(t) ==
  /\ tasks[t].op = "getOrStartKernel" /\ tasks[t].checkFailed
  /\ tasks[t].pc = "startNew" /\ tasks'[t].pc = "startKernelReturned"

C5_Resumes(t) ==
  /\ tasks[t].op = "getOrStartKernel" /\ tasks[t].checkFailed
  /\ tasks[t].pc = "startKernelReturned" /\ tasks'[t].pc # tasks[t].pc

C5_FallbackTotal ==
  /\ [](\A t \in CallIds :
          tasks[t].op = "getOrStartKernel" /\ tasks[t].checkFailed =>
            /\ tasks[t].getSpecsCalls = 1
            /\ tasks[t].pc = "threw" => tasks[t].err = "start"
            /\ tasks[t].pc = "returned" =>
                 /\ tasks[t].sessions = 1 /\ tasks[t].idWrites = 1
                 /\ tasks[t].res \in Started)
  /\ [][\A t \in CallIds :
          /\ C5_Overwrites(t) =>
               /\ tasks'[t].res \notin Started
               /\ storage'.kernelId = tasks'[t].res
          /\ C5_Resumes(t) =>
               /\ tasks'[t].pc = "returned"
               /\ tasks'[t].res = tasks[t].res]_vars

\* A stale kernelId was cached; the call came back with a new kernel.
C5_Witness ==
  \E t \in CallIds :
    /\ tasks[t].op = "getOrStartKernel" /\ tasks[t].pc = "returned"
    /\ tasks[t].checkFailed
    /\ tasks[t].kid = 1 /\ tasks[t].res = 2
    /\ storage.kernelId = 2

\* The tick in slot b is over with this step.
Ends(b) ==
  /\ tasks[b].op = "heartbeat" /\ Running(b)
  /\ tasks'[b].pc \in {"returned", "threw"}

\* C6: a heartbeat tick whose check fails because the kernel is dead gives
\* one new kernel, one write of kernelId, this.kernel bound to the new
\* kernel, and one new timer.
C6_DeadKernelReplaced ==
  [][\A b \in BeatIds :
       Ends(b) /\ tasks[b].checkFailed
       /\ tasks[b].kid \in KernelIds /\ kernels[tasks[b].kid].status = "dead" =>
         /\ tasks[b].sessions = 1
         /\ tasks[b].idWrites = 1
         /\ tasks[b].res # 0 /\ kernel' = tasks[b].res
         /\ Len(hbTimers') = Len(hbTimers) + 1]_vars

\* C7: every tick sets its timer once, whichever way it ends, so that
\* each chain started by a _kernelHeartbeat call is one activity at any
\* time, a pending timer or an executing tick: with the heartbeat started
\* once there is one timer or one tick, never two and never none.
C7_OneHeartbeat ==
  /\ Len(hbTimers) + Cardinality(RunningTicks) = hbStarts
  /\ \A b \in Ticks : tasks[b].timersSet = (IF Settled(b) THEN 1 ELSE 0)

\* The check failed, the replacement threw, and the next timer is pending.
C7_Witness ==
  /\ hbStarts = 1 /\ RunningTicks = {}
  /\ Len(hbTimers) = 1
  /\ \E b \in Ticks :
       /\ tasks[b].pc = "threw" /\ tasks[b].err = "start"
       /\ tasks[b].checkFailed

\* C8: once _kernelHeartbeat was called, with timers firing and requests
\* being answered, a tick is always followed by another tick, and a tick
\* that runs always ends with its timer set.
C8_HeartbeatNeverStops ==
  /\ (hbStarts > 0 /\ RunningTicks = {}) ~> (RunningTicks # {})
  /\ \A b \in BeatIds :
       Running(b) ~> (Settled(b) /\ tasks[b].timersSet = 1)

\* A tick the timer of _kernelHeartbeat(2) called runs while a kernel is
\* dead.
C8_Witness ==
  /\ hbTimers = <<>>
  /\ \E b \in RunningTicks :
       tasks[b].seconds = DefaultSeconds /\ tasks[b].interval = 2
  /\ \E k \in KernelIds : kernels[k].status = "dead"

\* C9: runIfKernelExists never provisions: it calls neither the binder nor
\* Kernel.getSpecs / Kernel.startNew, none of its steps changes
\* localStorage, this.kernel or the kernels of the servers, it returns
\* without calling run() when getKernelModel failed, and calls run() only
\* after getKernelModel succeeded.
C9_Steps(t) ==
  tasks[t].op = "runIfKernelExists" /\ tasks'[t] # tasks[t]

C9_NoProvisioning ==
  /\ [](\A t \in CallIds :
          tasks[t].op = "runIfKernelExists" =>
            /\ tasks[t].binderCalls = 0 /\ tasks[t].srv = "none"
            /\ tasks[t].getSpecsCalls = 0 /\ tasks[t].startNewCalls = 0
            /\ tasks[t].sessions = 0 /\ tasks[t].idWrites = 0
            /\ tasks[t].pc # "threw"
            /\ tasks[t].checkFailed => tasks[t].pc = "returned" /\ ~tasks[t].calledRun
            /\ tasks[t].calledRun => ~tasks[t].checkFailed /\ tasks[t].pc = "returned")
  /\ [][\A t \in CallIds :
          C9_Steps(t) => UNCHANGED <<storage, kernel, kernels, manager>>]_vars

\* The cached kernel was dead: the call returned without calling run().
C9_Witness ==
  \E t \in CallIds :
    /\ tasks[t].op = "runIfKernelExists" /\ tasks[t].pc = "returned"
    /\ tasks[t].checkFailed /\ tasks[t].kid = 1
    /\ runs = <<>> /\ storage.kernelId = 1

\* C10: a kernel is shut down by killKernel only: kernel.shutdown() is
\* requested by killKernel calls alone, and a kernel that was shut down was
\* shut down by a killKernel call that returned.
C10_ShutdownOnlyByKill ==
  /\ \A t \in TaskIds : tasks[t].pc = "shutdown" => tasks[t].op = "killKernel"
  /\ \A k \in KernelIds :
       kernels[k].status = "shutdown" =>
         \E t \in CallIds : /\ tasks[t].op = "killKernel"
                            /\ tasks[t].pc = "returned"
                            /\ tasks[t].res = k

\* killKernel has shut the cached kernel down.
C10_Witness ==
  \E t \in CallIds :
    /\ tasks[t].op = "killKernel" /\ tasks[t].pc = "returned"
    /\ kernels[tasks[t].res].status = "shutdown"

\* The input after its scheme, from the colon on, and the expected results.
SchemeOf(u) == IF SubSeq(u, 1, Len(https)) = https THEN https ELSE http
AfterScheme(u) == SubSeq(u, Len(SchemeOf(u)) + 2, Len(u))
Converted == ws.pc = "returned"

\* C11: for a base url that contains "localhost", whatever its scheme,
\* baseToWsUrl returns ws: followed by the input after its scheme.
C11_LocalhostUnencrypted ==
  Converted /\ includes(ws.baseUrl, localhost) =>
    ws.wsUrl = <<"w", "s", ":">> \o AfterScheme(ws.baseUrl)

\* https://localhost:8/ gave ws://localhost:8/
C11_Witness ==
  /\ Converted
  /\ ws.baseUrl = https \o <<":", "/", "/">> \o localhost \o <<":", "8", "/">>
  /\ ws.wsUrl = <<"w", "s", ":", "/", "/">> \o localhost \o <<":", "8", "/">>

\* C12: for a base url that does not contain "localhost", baseToWsUrl
\* returns the scheme that matches the scheme of the input, ws for http and
\* wss for https, followed by the input after its scheme.
C12_SchemeMatchesInput ==
  Converted /\ ~includes(ws.baseUrl, localhost) =>
    ws.wsUrl = (IF SchemeOf(ws.baseUrl) = https THEN <<"w", "s", "s", ":">>
                ELSE <<"w", "s", ":">>) \o AfterScheme(ws.baseUrl)

\* Task t reads the cache in this step: getKernelModel runs up to its await.
Loads(t) ==
  /\ tasks[t].pc \notin {"findById", "gkmThrew"}
  /\ tasks'[t].pc \in {"findById", "gkmThrew"}

BothSaved == saved.url # NoUrl /\ saved.kernelId # 0

\* C13: once startServer has saved url and token and startKernel has saved
\* the kernel id, a load of the cache in getKernelModel parses and gives the
\* url, the token and the kernel id that were saved last: a save replaces
\* what was saved before.
C13_CacheRoundTrip ==
  [][\A t \in TaskIds :
       Loads(t) /\ BothSaved =>
         /\ tasks'[t].pc = "findById"
         /\ tasks'[t].settings = makeSettings(saved.url, saved.token)
         /\ tasks'[t].kid = saved.kernelId]_vars

\* Two kernels were started and saved one after the other; the tick after
\* them loaded the second together with the url saved last.
C13_Witness ==
  /\ mine = {1, 2}
  /\ BothSaved
  /\ \E b \in Ticks :
       /\ tasks[b].pc = "findById" /\ tasks[b].kid = 2
       /\ tasks[b].settings = makeSettings(saved.url, saved.token)

CachedOps == {"getKernelModel", "getKernel", "killKernel"}

\* C14: when localStorage holds no serverParams, or text that is not JSON,
\* the load in getKernelModel throws, and getKernelModel, getKernel and
\* killKernel throw that error on: no request is sent to a server and
\* localStorage stays as it was.
C14_LoadFailurePropagates ==
  /\ [][\A t \in CallIds :
          /\ Loads(t) /\ ~JSONparses(storage.serverParams) =>
               /\ tasks'[t].pc = "gkmThrew"
               /\ UNCHANGED <<storage, kernels>>
          /\ tasks[t].pc = "gkmThrew" /\ tasks'[t] # tasks[t]
             /\ tasks[t].op \in CachedOps =>
               /\ tasks'[t].pc = "threw" /\ tasks'[t].err = "cache"
               /\ UNCHANGED <<storage, kernels>>]_vars
  /\ [](\A t \in CallIds :
          tasks[t].op \in CachedOps /\ tasks[t].pc = "gkmThrew" =>
            /\ tasks[t].settings = NoSettings /\ tasks[t].kid = 0
            /\ tasks[t].getSpecsCalls = 0 /\ tasks[t].startNewCalls = 0
            /\ tasks[t].binderCalls = 0 /\ tasks[t].idWrites = 0)

\* killKernel on a cache that holds text that is not JSON threw the error of
\* the load.
C14_Witness ==
  \E t \in CallIds :
    /\ tasks[t].op = "killKernel" /\ tasks[t].pc = "threw"
    /\ tasks[t].err = "cache" /\ tasks[t].settings = NoSettings
    /\ storage.serverParams = Garbage

\* C15: a failure inside startKernel, of the provisioning, of
\* Kernel.getSpecs or of Kernel.startNew, is thrown on to the caller as it
\* is: a failed provisioning ends the call with the error of the binder, no
\* request is repeated, and a call that threw has written no kernelId.
C15_StartFailureRethrown ==
  \A t \in CallIds :
    tasks[t].op = "startKernel" =>
      /\ Settled(t) /\ tasks[t].srv = "failed" =>
           tasks[t].pc = "threw" /\ tasks[t].err = "binder"
      /\ tasks[t].pc = "threw" =>
           /\ tasks[t].err \in {"binder", "start"}
           /\ tasks[t].idWrites = 0 /\ tasks[t].sessions = 0
      /\ tasks[t].binderCalls <= 1
      /\ tasks[t].getSpecsCalls <= 1
      /\ tasks[t].startNewCalls <= 1

\* C16: every timer of a chain of ticks has the delay given by the argument
\* of the _kernelHeartbeat call that started the chain, whichever tick set
\* it and whichever way that tick ended: the first tick sets the timer to
\* its argument, and every later tick sets the same delay as the tick
\* before.
C16_SameInterval ==
  [][\A b \in BeatIds :
       Ends(b) => hbTimers' = Append(hbTimers, tasks[b].interval * 1000)]_vars

\* The kernels this manager started that are neither dead nor shut down.
Live == {k \in mine : kernels[k].status = "alive"}

\* C17: at most one of the kernels started by this manager is live at any
\* time.
C17_OneLiveSession == Cardinality(Live) <= 1

\* C18: the two slots of localStorage go together: a kernelId that is
\* stored is the id of a kernel that was started on the server the stored
\* serverParams describe.
C18_SlotsAsUnit ==
  storage.kernelId # 0 =>
    /\ JSONparses(storage.serverParams)
    /\ storage.kernelId \in Started
    /\ kernels[storage.kernelId].url = JSONparse(storage.serverParams).url

\* The tick in slot b ends in this step after its check succeeded.
C19_CheckOk(b) ==
  /\ tasks[b].op = "heartbeat" /\ tasks[b].pc = "findById"
  /\ tasks'[b].pc = "returned"

\* C19: a heartbeat tick whose check succeeds does nothing but set the next
\* timer: it starts no kernel, calls neither the binder nor Kernel.getSpecs
\* nor Kernel.startNew, and leaves this.kernel, the manager and both slots
\* of localStorage as they are.
C19_SuccessOnlyReschedules ==
  /\ [](\A b \in Ticks :
          ~tasks[b].checkFailed =>
            /\ tasks[b].pc \in {"findById", "gkmThrew", "returned"}
            /\ tasks[b].binderCalls = 0 /\ tasks[b].srv = "none"
            /\ tasks[b].getSpecsCalls = 0 /\ tasks[b].startNewCalls = 0
            /\ tasks[b].sessions = 0 /\ tasks[b].idWrites = 0
            /\ tasks[b].pc = "returned" => tasks[b].timersSet = 1)
  /\ [][\A b \in BeatIds :
          C19_CheckOk(b) =>
            /\ ~tasks'[b].checkFailed
            /\ hbTimers' = Append(hbTimers, tasks[b].seconds * 1000)
            /\ UNCHANGED <<storage, kernel, manager, kernels, mine, saved>>]_vars

\* The cached kernel is alive: the tick returned and the next timer is set.
C19_Witness ==
  /\ \E b \in Ticks :
       /\ tasks[b].pc = "returned" /\ ~tasks[b].checkFailed
       /\ tasks[b].timersSet = 1
  /\ storage.kernelId = 1 /\ kernels[1].status = "alive"
  /\ Len(hbTimers) = 1
  /\ kernel = 0 /\ storage.kernelId = 1 /\ mine = {}

\* C20: a getOrStartKernel call made after killKernel has shut a kernel
\* down does not return that kernel.
C20_KilledNotReturned ==
  \A t \in CallIds :
    tasks[t].op = "getOrStartKernel" /\ tasks[t].pc = "returned" =>
      tasks[t].res \notin tasks[t].killed

====
